---- MODULE Spec2Model ----
(***************************************************************************)
(* Device handle construction, mode switching, transport switching and     *)
(* discovery of ykman (src/ykman/device.py).                                *)
(*                                                                         *)
(* Python values are represented as follows:                               *)
(*   - None for an optional integer (serial, autoeject_time) is -1;        *)
(*   - a byte string is a sequence of numbers 0..255;                      *)
(*   - a firmware version is a 3-tuple, compared lexicographically;        *)
(*   - a Mode is a record [code, transports];                              *)
(*   - a driver is a record [transport, version, mode, serial, sky];       *)
(*   - a YubiKey handle is a record [device_name, capabilities, enabled,   *)
(*     tlv_serial (the _serial attribute), driver (the _driver slot)].     *)
(*                                                                         *)
(* The module also covers two helpers of the command line                  *)
(* (src/ykman/cli/util.py): the touch-prompt timer of prompt_timeout and   *)
(* the lazily resolved YkmanContextObject.                                 *)
(***************************************************************************)
EXTENDS Integers, Sequences, FiniteSets, TLC

VARIABLES dev, newdev, pc, loc, ret, io,
          now, mainpc, timers,
          objects, resolved, stack, invoked, got, cret, returned, wrote

\* The state of the device handles (src/ykman/device.py).
deviceVars == <<dev, newdev, pc, loc, ret, io>>

\* The state of prompt_timeout and its timers (src/ykman/cli/util.py).
promptVars == <<now, mainpc, timers>>

\* The state of a YkmanContextObject (src/ykman/cli/util.py).
ctxVars == <<objects, resolved, stack, invoked, got, cret, returned, wrote>>

vars == <<dev, newdev, pc, loc, ret, io,
          now, mainpc, timers,
          objects, resolved, stack, invoked, got, cret, returned, wrote>>

(***************************************************************************)
(* Bounds of the model.                                                    *)
(***************************************************************************)
MaxSerial == 2
MaxRecs == 2
MaxCrTimeout == 1
MaxEject == 1

(***************************************************************************)
(* Constants of the program.                                               *)
(***************************************************************************)
YK4_CAPA_TAG == 1
YK4_SERIAL_TAG == 2
YK4_ENABLED_TAG == 3

TRANSPORT_OTP == 1
TRANSPORT_U2F == 2
TRANSPORT_CCID == 4

CAPABILITY_OTP == 1
CAPABILITY_U2F == 2
CAPABILITY_CCID == 4

TOUCH_EJECT_FLAG == 128
EDGE_CAPABILITIES == 7
LEGACY_MODE_CODE == 2

None == -1

TRANSPORT == {TRANSPORT_OTP, TRANSPORT_U2F, TRANSPORT_CCID}

(***************************************************************************)
(* Integer bit operations (Python's &, | and & ~ on non-negative ints).    *)
(***************************************************************************)
RECURSIVE BitAnd(_, _)
BitAnd(a, b) ==
    IF a = 0 \/ b = 0 THEN 0
    ELSE (a % 2) * (b % 2) + 2 * BitAnd(a \div 2, b \div 2)

BitOr(a, b) == a + b - BitAnd(a, b)

AndNot(a, b) == a - BitAnd(a, b)

RECURSIVE SumSet(_)
SumSet(S) ==
    IF S = {} THEN 0
    ELSE LET x == CHOOSE y \in S : TRUE IN x + SumSet(S \ {x})

\* Python truthiness of an optional integer: None and 0 are false.
Truthy(x) == x # None /\ x # 0

\* Python's "a or b" on optional integers.
PyOr(a, b) == IF Truthy(a) THEN a ELSE b

(***************************************************************************)
(* Versions: tuples compared as Python compares tuples.                     *)
(***************************************************************************)
VersionGE(a, b) ==
    \/ a[1] > b[1]
    \/ a[1] = b[1] /\ a[2] > b[2]
    \/ a[1] = b[1] /\ a[2] = b[2] /\ a[3] >= b[3]

VersionLE(a, b) == VersionGE(b, a)

(***************************************************************************)
(* Modes: numeric code and mask of enabled transports.                      *)
(***************************************************************************)
ModeTransports(code) ==
    CASE code = 0 -> TRANSPORT_OTP
      [] code = 1 -> TRANSPORT_CCID
      [] code = 2 -> BitOr(TRANSPORT_OTP, TRANSPORT_CCID)
      [] code = 3 -> TRANSPORT_U2F
      [] code = 4 -> BitOr(TRANSPORT_OTP, TRANSPORT_U2F)
      [] code = 5 -> BitOr(TRANSPORT_U2F, TRANSPORT_CCID)
      [] code = 6 -> BitOr(TRANSPORT_OTP, BitOr(TRANSPORT_U2F, TRANSPORT_CCID))

Mode(code) == [code |-> code, transports |-> ModeTransports(code)]

Modes == {Mode(c) : c \in 0..6}

has_transport(mode, transport) == BitAnd(mode.transports, transport) = transport

(***************************************************************************)
(* TLV codec.                                                              *)
(***************************************************************************)
Put(map, k, v) == [x \in (DOMAIN map) \cup {k} |-> IF x = k THEN v ELSE map[x]]

RECURSIVE ParseTlv(_, _)
ParseTlv(data, acc) ==
    IF Len(data) = 0 THEN [fault |-> FALSE, map |-> acc]
    ELSE IF Len(data) < 2 THEN [fault |-> TRUE, map |-> acc]
    ELSE LET t == data[1]
             l == data[2]
             rest == SubSeq(data, 3, Len(data))
         IN  IF l > Len(rest) THEN [fault |-> TRUE, map |-> acc]
             ELSE ParseTlv(SubSeq(rest, l + 1, Len(rest)),
                           Put(acc, t, SubSeq(rest, 1, l)))

parse_tlv_list(data) == ParseTlv(data, <<>>)

\* int(value.encode('hex'), 16): the big-endian integer of a byte string.
RECURSIVE BigEndian(_)
BigEndian(bytes) ==
    IF Len(bytes) = 0 THEN 0
    ELSE 256 * BigEndian(SubSeq(bytes, 1, Len(bytes) - 1)) + bytes[Len(bytes)]

(***************************************************************************)
(* Drivers and handles.                                                    *)
(***************************************************************************)
Driver(t, v, m, s, k) ==
    [transport |-> t, version |-> v, mode |-> m, serial |-> s, sky |-> k]

\* The inert driver a released handle holds; it belongs to no transport.
NULL_DRIVER == Driver(0, <<0, 0, 0>>, Mode(0), None, FALSE)

\* Python's None where a driver or a handle is expected.
NoDriver == [none |-> TRUE]
NoHandle == [none |-> TRUE]
NoLoc == [none |-> TRUE]

IsHandle(h) == h # NoHandle
IsLive(h) == IsHandle(h) /\ h.driver # NULL_DRIVER

\* The class attributes of YubiKey, with the driver slot filled.
NewHandle(driver) ==
    [device_name |-> "YubiKey", capabilities |-> 0, enabled |-> 0,
     tlv_serial |-> None, driver |-> driver]

version(h) == h.driver.version
serial(h) == PyOr(h.tlv_serial, h.driver.serial)
transport(h) == h.driver.transport
mode(h) == h.driver.mode

has_mode(h, m) == BitAnd(h.capabilities, m.transports) = m.transports

Min(a, b) == IF a < b THEN a ELSE b

Call(name, args) == [call |-> name, args |-> args]

(***************************************************************************)
(* YubiKey._parse_capabilities: the result is the handle as the method     *)
(* leaves it and "ok", or the fault the method raises.                     *)
(***************************************************************************)
HasTag(m, t) == t \in DOMAIN m
EmptyTag(m, t) == HasTag(m, t) /\ Len(m[t]) = 0

\* Lines 97-104, on the decoded mapping m.
apply_tlv(h, m) ==
    [h EXCEPT
        !.capabilities = IF HasTag(m, YK4_CAPA_TAG)
                         THEN BigEndian(m[YK4_CAPA_TAG]) ELSE @,
        !.tlv_serial = IF HasTag(m, YK4_SERIAL_TAG)
                       THEN BigEndian(m[YK4_SERIAL_TAG]) ELSE @,
        !.enabled = IF HasTag(m, YK4_ENABLED_TAG)
                    THEN BigEndian(m[YK4_ENABLED_TAG])
                    ELSE IF HasTag(m, YK4_CAPA_TAG)
                    THEN BigEndian(m[YK4_CAPA_TAG])
                    ELSE h.capabilities]

\* Lines 96-104, on what parse_tlv_list returned; int('', 16) raises.
parse_decoded(h, p) ==
    IF p.fault THEN [outcome |-> "DecodeFault", h |-> h]
    ELSE IF \/ EmptyTag(p.map, YK4_CAPA_TAG)
            \/ EmptyTag(p.map, YK4_SERIAL_TAG)
            \/ EmptyTag(p.map, YK4_ENABLED_TAG)
    THEN [outcome |-> "ValueError", h |-> h]
    ELSE [outcome |-> "ok", h |-> apply_tlv(h, p.map)]

\* Lines 91-104.
parse_capabilities(h, data) ==
    IF Len(data) = 0 THEN [outcome |-> "ok", h |-> h]
    ELSE parse_decoded(
            h, parse_tlv_list(SubSeq(data, 2, Min(Len(data), data[1] + 1))))

(***************************************************************************)
(* YubiKey.__init__, the classification chain.  blob is what               *)
(* driver.read_capabilities() answers and probe what                       *)
(* driver.probe_capabilities_support() answers, if the chain asks.         *)
(***************************************************************************)
IsSky(driver) == driver.transport = TRANSPORT_U2F /\ driver.sky
IsYk4(driver) == ~IsSky(driver) /\ VersionGE(driver.version, <<4, 1, 0>>)
IsPlus(driver) ==
    ~IsSky(driver) /\ ~IsYk4(driver) /\ VersionGE(driver.version, <<4, 0, 0>>)
IsNeo(driver) ==
    /\ ~IsSky(driver) /\ ~IsYk4(driver) /\ ~IsPlus(driver)
    /\ VersionGE(driver.version, <<3, 0, 0>>)

ReadsCapabilities(driver) == IsYk4(driver)
Probes(driver) == IsNeo(driver) /\ driver.transport = TRANSPORT_CCID

Named(driver, name) == [NewHandle(driver) EXCEPT !.device_name = name]
WithCapabilities(h, c) == [outcome |-> "ok", h |-> [h EXCEPT !.capabilities = c]]

\* edge_override without the override: the decoded mask is kept.
edge_override_none(r) == r

\* Lines 68-70, on what _parse_capabilities left.
edge_override(r) ==
    IF r.outcome = "ok" /\ r.h.capabilities = EDGE_CAPABILITIES
    THEN [outcome |-> "ok",
          h |-> [r.h EXCEPT !.device_name = "YubiKey Edge",
                            !.capabilities =
                                BitOr(CAPABILITY_OTP, CAPABILITY_U2F)]]
    ELSE r

\* neo_capabilities with the probed value ignored.
neo_capabilities_no_probe(driver, probe) ==
    IF has_transport(driver.mode, TRANSPORT_U2F)
       \/ VersionGE(driver.version, <<3, 3, 0>>)
    THEN BitOr(CAPABILITY_OTP, BitOr(CAPABILITY_U2F, CAPABILITY_CCID))
    ELSE BitOr(CAPABILITY_OTP, CAPABILITY_CCID)

\* Lines 76-83.
neo_capabilities(driver, probe) ==
    IF driver.transport = TRANSPORT_CCID THEN probe
    ELSE IF has_transport(driver.mode, TRANSPORT_U2F)
            \/ VersionGE(driver.version, <<3, 3, 0>>)
    THEN BitOr(CAPABILITY_OTP, BitOr(CAPABILITY_U2F, CAPABILITY_CCID))
    ELSE BitOr(CAPABILITY_OTP, CAPABILITY_CCID)

\* Classify with the security-key rule tried after the version rules.
Classify_version_first(driver, blob, probe) ==
    IF VersionGE(driver.version, <<4, 1, 0>>) THEN
        edge_override(parse_capabilities(Named(driver, "YubiKey 4"), blob))
    ELSE IF VersionGE(driver.version, <<4, 0, 0>>) THEN
        WithCapabilities(Named(driver, "YubiKey Plus"),
                         BitOr(CAPABILITY_OTP, CAPABILITY_U2F))
    ELSE IF VersionGE(driver.version, <<3, 0, 0>>) THEN
        WithCapabilities(Named(driver, "YubiKey NEO"),
                         neo_capabilities(driver, probe))
    ELSE IF IsSky(driver) THEN
        WithCapabilities(Named(driver, "Security Key by Yubico"), CAPABILITY_U2F)
    ELSE
        WithCapabilities(NewHandle(driver), CAPABILITY_OTP)

\* Lines 62-85: the handle after the chain, or the fault of the TLV branch.
Classify(driver, blob, probe) ==
    IF IsSky(driver) THEN
        WithCapabilities(Named(driver, "Security Key by Yubico"), CAPABILITY_U2F)
    ELSE IF IsYk4(driver) THEN
        edge_override(parse_capabilities(Named(driver, "YubiKey 4"), blob))
    ELSE IF IsPlus(driver) THEN
        WithCapabilities(Named(driver, "YubiKey Plus"),
                         BitOr(CAPABILITY_OTP, CAPABILITY_U2F))
    ELSE IF IsNeo(driver) THEN
        WithCapabilities(Named(driver, "YubiKey NEO"),
                         neo_capabilities(driver, probe))
    ELSE
        WithCapabilities(NewHandle(driver), CAPABILITY_OTP)

\* Lines 87-89: the default of enabled when nothing set it (or set it to 0).
DefaultEnabled(h) ==
    IF h.enabled = 0
    THEN [h EXCEPT !.enabled =
             BitOr(AndNot(h.capabilities, SumSet(TRANSPORT)),
                   h.driver.mode.transports)]
    ELSE h

\* The driver calls __init__ makes, with what they answered.
InitCalls(driver, blob, probe) ==
    IF ReadsCapabilities(driver) THEN <<Call("read_capabilities", blob)>>
    ELSE IF Probes(driver) THEN <<Call("probe_capabilities_support", probe)>>
    ELSE <<>>

\* Lines 87-89, on what the chain left; h is NoHandle when __init__ raises.
init_result(r, calls) ==
    [outcome |-> r.outcome,
     h |-> IF r.outcome = "ok" THEN DefaultEnabled(r.h) ELSE NoHandle,
     calls |-> calls]

\* YubiKey(driver), lines 57-89: [outcome, h, calls].
YubiKeyInit(driver, blob, probe) ==
    IF driver = NoDriver
    THEN [outcome |-> "ValueError", h |-> NoHandle, calls |-> <<>>]
    ELSE init_result(Classify(driver, blob, probe),
                     InitCalls(driver, blob, probe))

(***************************************************************************)
(* YubiKey.set_mode and the mode property setter.  answer is what the      *)
(* driver's set_mode does: "ok", or "raise".                               *)
(***************************************************************************)
\* set_mode_flags without the legacy quirk.
set_mode_flags_no_quirk(h, m, autoeject_time) ==
    IF autoeject_time # None THEN BitOr(0, TOUCH_EJECT_FLAG) ELSE 0

\* Lines 136-146: the flags before the mode code is ORed in.
set_mode_flags(h, m, autoeject_time) ==
    LET flags == IF autoeject_time # None THEN BitOr(0, TOUCH_EJECT_FLAG) ELSE 0
    IN  IF VersionLE(version(h), <<3, 3, 1>>) /\ m.code = LEGACY_MODE_CODE
        THEN TOUCH_EJECT_FLAG
        ELSE flags

\* set_mode_eject with the given eject time dropped.
set_mode_eject_dropped(autoeject_time) == 0

\* Lines 139-142: the eject time handed to the driver.
set_mode_eject(autoeject_time) ==
    IF autoeject_time # None THEN autoeject_time ELSE 0

\* Line 147: the call to the driver.
set_mode_call(h, m, cr_timeout, autoeject_time) ==
    Call("set_mode",
         <<BitOr(set_mode_flags(h, m, autoeject_time), m.code),
           cr_timeout,
           set_mode_eject(autoeject_time)>>)

\* set_mode without the update of the driver's cached mode (line 148).
set_mode_no_cache(h, m, cr_timeout, autoeject_time, answer) ==
    [outcome |-> IF answer = "ok" THEN "returned" ELSE "DriverError",
     h |-> h,
     calls |-> <<set_mode_call(h, m, cr_timeout, autoeject_time)>>]

\* Lines 135-148.
set_mode(h, m, cr_timeout, autoeject_time, answer) ==
    [outcome |-> IF answer = "ok" THEN "returned" ELSE "DriverError",
     h |-> IF answer = "ok" THEN [h EXCEPT !.driver.mode = m] ELSE h,
     calls |-> <<set_mode_call(h, m, cr_timeout, autoeject_time)>>]

\* mode_setter without the has_mode check.
mode_setter_unchecked(h, m, answer) == set_mode(h, m, 0, None, answer)

\* Lines 126-130.
mode_setter(h, m, answer) ==
    IF ~has_mode(h, m)
    THEN [outcome |-> "ValueError", h |-> h, calls |-> <<>>]
    ELSE set_mode(h, m, 0, None, answer)

(***************************************************************************)
(* open_device.  Each transport in the mask answers "none" (no device),    *)
(* "raise", or "driver": a driver for the attached device att.             *)
(***************************************************************************)
TransportsIn(mask) == {t \in TRANSPORT : BitAnd(t, mask) # 0}

Opened(t, answers, att) ==
    IF answers[t] = "driver"
    THEN Driver(t, att.version, att.mode, att.serial,
                t = TRANSPORT_U2F /\ att.sky)
    ELSE NoDriver

\* Attempt with the exception of the open swallowed.
Attempt_swallows(s, t, name, answers, att) ==
    [dev |-> Opened(t, answers, att),
     raised |-> FALSE,
     calls |-> Append(s.calls, Call(name, <<answers[t]>>))]

\* One "dev = open_x()" inside the try block; s is [dev, raised, calls].
Attempt(s, t, name, answers, att) ==
    [dev |-> Opened(t, answers, att),
     raised |-> answers[t] = "raise",
     calls |-> Append(s.calls, Call(name, <<answers[t]>>))]

\* Lines 182-183.
try_ccid(s, transports, answers, att) ==
    IF BitAnd(TRANSPORT_CCID, transports) # 0
    THEN Attempt(s, TRANSPORT_CCID, "open_ccid", answers, att)
    ELSE s

\* try_otp without the "not dev" test.
try_otp_unconditional(s, transports, answers, att) ==
    IF ~s.raised /\ BitAnd(TRANSPORT_OTP, transports) # 0
    THEN [dev |-> IF Opened(TRANSPORT_OTP, answers, att) # NoDriver
                  THEN Opened(TRANSPORT_OTP, answers, att) ELSE s.dev,
          raised |-> answers[TRANSPORT_OTP] = "raise",
          calls |-> Append(s.calls,
                           Call("open_otp", <<answers[TRANSPORT_OTP]>>))]
    ELSE s

\* Lines 184-185; an exception of an earlier open has left the try block.
try_otp(s, transports, answers, att) ==
    IF ~s.raised /\ BitAnd(TRANSPORT_OTP, transports) # 0 /\ s.dev = NoDriver
    THEN Attempt(s, TRANSPORT_OTP, "open_otp", answers, att)
    ELSE s

\* Lines 186-187.
try_u2f(s, transports, answers, att) ==
    IF ~s.raised /\ BitAnd(TRANSPORT_U2F, transports) # 0 /\ s.dev = NoDriver
    THEN Attempt(s, TRANSPORT_U2F, "open_u2f", answers, att)
    ELSE s

\* Lines 180-189: [dev, raised, calls].
open_attempts(transports, answers, att) ==
    try_u2f(
        try_otp(
            try_ccid([dev |-> NoDriver, raised |-> FALSE, calls |-> <<>>],
                     transports, answers, att),
            transports, answers, att),
        transports, answers, att)

\* Line 191, dev not None: what YubiKey(dev) does.
construct_result(calls, r) ==
    [outcome |-> IF r.outcome = "ok" THEN "returned" ELSE r.outcome,
     h |-> r.h,
     calls |-> calls \o r.calls]

\* open_result with "YubiKey(dev)" whether or not dev is None.
open_result_constructs(s, blob, probe) ==
    IF s.raised
    THEN [outcome |-> "FailedOpeningDeviceException", h |-> NoHandle,
          calls |-> s.calls]
    ELSE construct_result(s.calls, YubiKeyInit(s.dev, blob, probe))

\* Lines 188-191, on what the try block left.
open_result(s, blob, probe) ==
    IF s.raised
    THEN [outcome |-> "FailedOpeningDeviceException", h |-> NoHandle,
          calls |-> s.calls]
    ELSE IF s.dev = NoDriver
    THEN [outcome |-> "None", h |-> NoHandle, calls |-> s.calls]
    ELSE construct_result(s.calls, YubiKeyInit(s.dev, blob, probe))

\* Lines 179-191: [outcome, h, calls].
open_device(transports, answers, att, blob, probe) ==
    open_result(open_attempts(transports, answers, att), blob, probe)

(***************************************************************************)
(* YubiKey.use_transport.                                                  *)
(***************************************************************************)
\* release that leaves the driver in the slot.
release_keeps_driver(h) == h

\* Lines 158-159.
release(h) == [h EXCEPT !.driver = NULL_DRIVER]

\* use_transport_begin without the fast path of lines 151-152.
use_transport_begin_no_fast_path(h, t) ==
    IF ~has_transport(mode(h), t)
    THEN [outcome |-> "ValueError", h |-> h, loc |-> NoLoc, calls |-> <<>>]
    ELSE [outcome |-> "released",
          h |-> [h EXCEPT !.driver = NULL_DRIVER],
          loc |-> [transport |-> t, my_mode |-> mode(h),
                   my_serial |-> serial(h), dev |-> NoHandle],
          calls |-> <<Call("release", <<>>)>>]

\* use_transport_begin without the has_transport check of lines 153-154.
use_transport_begin_no_mode_check(h, t) ==
    IF transport(h) = t
    THEN [outcome |-> "self", h |-> h, loc |-> NoLoc, calls |-> <<>>]
    ELSE [outcome |-> "released",
          h |-> [h EXCEPT !.driver = NULL_DRIVER],
          loc |-> [transport |-> t, my_mode |-> mode(h),
                   my_serial |-> serial(h), dev |-> NoHandle],
          calls |-> <<Call("release", <<>>)>>]

\* Lines 151-159: "self", "ValueError", or "released" with the captured
\* mode and serial.
use_transport_begin(h, t) ==
    IF transport(h) = t
    THEN [outcome |-> "self", h |-> h, loc |-> NoLoc, calls |-> <<>>]
    ELSE IF ~has_transport(mode(h), t)
    THEN [outcome |-> "ValueError", h |-> h, loc |-> NoLoc, calls |-> <<>>]
    ELSE [outcome |-> "released",
          h |-> release(h),
          loc |-> [transport |-> t, my_mode |-> mode(h),
                   my_serial |-> serial(h), dev |-> NoHandle],
          calls |-> <<Call("release", <<>>)>>]

\* use_transport_check without the assert on the serial.
use_transport_check_no_serial(l) ==
    IF l.dev = NoHandle THEN "AttributeError"
    ELSE IF mode(l.dev) # l.my_mode THEN "AssertionError"
    ELSE "returned"

\* use_transport_check without the assert on the mode.
use_transport_check_no_mode(l) ==
    IF l.dev = NoHandle THEN "AttributeError"
    ELSE IF Truthy(serial(l.dev)) /\ Truthy(l.my_serial)
            /\ serial(l.dev) # l.my_serial
    THEN "AssertionError"
    ELSE "returned"

\* use_transport_check with the None of open_device handed on to the caller.
use_transport_check_returns_none(l) ==
    IF l.dev = NoHandle THEN "returned"
    ELSE IF Truthy(serial(l.dev)) /\ Truthy(l.my_serial)
            /\ serial(l.dev) # l.my_serial
    THEN "AssertionError"
    ELSE IF mode(l.dev) # l.my_mode THEN "AssertionError"
    ELSE "returned"

\* Lines 162-165: l.dev is what open_device returned (NoHandle for None).
use_transport_check(l) ==
    IF l.dev = NoHandle THEN "AttributeError"
    ELSE IF Truthy(serial(l.dev)) /\ Truthy(l.my_serial)
            /\ serial(l.dev) # l.my_serial
    THEN "AssertionError"
    ELSE IF mode(l.dev) # l.my_mode THEN "AssertionError"
    ELSE "returned"

(***************************************************************************)
(* What the environment can present: firmware versions, drivers, answers   *)
(* of read_capabilities() and probe_capabilities_support().                *)
(***************************************************************************)
Versions ==
    {<<2, 4, 3>>, <<3, 2, 0>>, <<3, 3, 0>>, <<3, 3, 1>>, <<3, 4, 3>>,
     <<4, 0, 0>>, <<4, 1, 0>>, <<4, 1, 5>>}

Serials == {None} \cup (0..MaxSerial)

\* A device is reachable over a transport only if its mode enables it.
DriversOn(t, vs, ss) ==
    {Driver(t, v, m, s, k) :
        v \in vs, m \in {x \in Modes : has_transport(x, t)}, s \in ss,
        k \in (IF t = TRANSPORT_U2F THEN BOOLEAN ELSE {FALSE})}

AllDrivers == UNION {DriversOn(t, Versions, Serials) : t \in TRANSPORT}

ProbeValues == {5, 61, 63}

TlvRecords ==
    {<<YK4_CAPA_TAG, v>> : v \in {<<7>>, <<63>>, <<0, 7>>}}
    \cup {<<YK4_SERIAL_TAG, <<2>>>>}
    \cup {<<YK4_ENABLED_TAG, v>> : v \in {<<0>>, <<3>>, <<>>}}

RECURSIVE SeqsUpTo(_, _)
SeqsUpTo(S, n) ==
    IF n = 0 THEN {<<>>}
    ELSE LET shorter == SeqsUpTo(S, n - 1)
         IN  shorter \cup {Append(q, x) : q \in shorter, x \in S}

RECURSIVE EncodeTlv(_)
EncodeTlv(recs) ==
    IF Len(recs) = 0 THEN <<>>
    ELSE <<recs[1][1], Len(recs[1][2])>> \o recs[1][2] \o EncodeTlv(Tail(recs))

\* A capability blob: the length byte, then the records; cut bytes are
\* dropped from the declared length.
Frame(payload, cut) == <<Len(payload) - cut>> \o payload

BlobsOf(recordSeqs) ==
    LET frames == {Frame(EncodeTlv(rs), cut) : rs \in recordSeqs, cut \in {0, 1}}
    IN  {<<>>} \cup {b \in frames : b[1] >= 0}

Blobs == BlobsOf(SeqsUpTo(TlvRecords, MaxRecs))

BlobsFor(driver, blobs) ==
    IF driver # NoDriver /\ ReadsCapabilities(driver) THEN blobs ELSE {<<>>}
ProbesFor(driver) ==
    IF driver # NoDriver /\ Probes(driver) THEN ProbeValues ELSE {0}

(***************************************************************************)
(* State.                                                                  *)
(*   dev     the handle the caller holds (NoHandle if none)                *)
(*   newdev  the handle use_transport returned, a different object         *)
(*   pc      "idle"; "released": use_transport has released the driver and *)
(*           has not yet called open_device; "opened": open_device has     *)
(*           returned and the checks have not yet run                      *)
(*   loc     the locals of the running use_transport                       *)
(*   ret     how the last call ended: [op, outcome, arg]                   *)
(*   io      the driver calls and transport opens of the last call, in     *)
(*           order                                                         *)
(***************************************************************************)
NoRet == [op |-> "none", outcome |-> "none", arg |-> <<>>]

\* No __getitem__ has returned yet; no call on the context object was made.
NoGot == [none |-> TRUE]
NoCall == [op |-> "none", outcome |-> "none"]

Ret(op, outcome, arg) == [op |-> op, outcome |-> outcome, arg |-> arg]

Init ==
    /\ dev = NoHandle
    /\ newdev = NoHandle
    /\ pc = "idle"
    /\ loc = NoLoc
    /\ ret = NoRet
    /\ io = <<>>
    /\ now = 0
    /\ mainpc = "idle"
    /\ timers = <<>>
    /\ objects = <<>>
    /\ resolved = FALSE
    /\ stack = <<>>
    /\ invoked = <<>>
    /\ got = NoGot
    /\ cret = NoCall
    /\ returned = {}
    /\ wrote = FALSE

\* The caller has seen how the last call ended and goes on with its handle.
Ack ==
    /\ pc = "idle"
    /\ ret # NoRet
    /\ newdev = NoHandle
    /\ IsLive(dev)
    /\ ret' = NoRet
    /\ io' = <<>>
    /\ UNCHANGED <<dev, newdev, pc, loc>>
    /\ UNCHANGED <<promptVars, ctxVars>>

\* The caller drops its handles.
Discard ==
    /\ pc = "idle"
    /\ (ret # NoRet \/ dev # NoHandle)
    /\ dev' = NoHandle
    /\ newdev' = NoHandle
    /\ loc' = NoLoc
    /\ ret' = NoRet
    /\ io' = <<>>
    /\ UNCHANGED pc
    /\ UNCHANGED <<promptVars, ctxVars>>

(***************************************************************************)
(* YubiKey(driver) called directly.                                        *)
(***************************************************************************)
Constructed(d, r) ==
    /\ dev' = r.h
    /\ ret' = Ret("YubiKey", IF r.outcome = "ok" THEN "returned" ELSE r.outcome, d)
    /\ io' = r.calls

ConstructFrom(drivers, blobs) ==
    /\ pc = "idle"
    /\ dev = NoHandle
    /\ ret = NoRet
    /\ \E d \in drivers :
       \E blob \in BlobsFor(d, blobs), probe \in ProbesFor(d) :
          Constructed(d, YubiKeyInit(d, blob, probe))
    /\ UNCHANGED <<newdev, pc, loc>>
    /\ UNCHANGED <<promptVars, ctxVars>>

Construct == ConstructFrom(AllDrivers \cup {NoDriver}, Blobs)

NextClassify == Construct \/ Discard

SpecClassify == Init /\ [][NextClassify]_vars

(***************************************************************************)
(* Mode switching on a handle.                                             *)
(***************************************************************************)
ModeVersions ==
    {<<2, 4, 3>>, <<3, 3, 0>>, <<3, 3, 1>>, <<3, 4, 3>>, <<4, 0, 0>>, <<4, 1, 5>>}

ModeDrivers == UNION {DriversOn(t, ModeVersions, {None}) : t \in TRANSPORT}

ModeBlobs == BlobsOf({<<<<YK4_CAPA_TAG, <<63>>>>>>, <<<<YK4_CAPA_TAG, <<7>>>>>>})

CrTimeouts == 0..MaxCrTimeout
EjectTimes == {None} \cup (0..MaxEject)

ConstructForMode == ConstructFrom(ModeDrivers, ModeBlobs)

ModeSet(op, m, cr, ae, r) ==
    /\ dev' = r.h
    /\ ret' = Ret(op, r.outcome,
                  [mode |-> m, cr_timeout |-> cr, autoeject_time |-> ae])
    /\ io' = r.calls

\* dev.set_mode(m, cr_timeout, autoeject_time)
SetMode ==
    /\ pc = "idle"
    /\ ret = NoRet
    /\ IsLive(dev)
    /\ \E m \in Modes, cr \in CrTimeouts, ae \in EjectTimes,
          answer \in {"ok", "raise"} :
          ModeSet("set_mode", m, cr, ae, set_mode(dev, m, cr, ae, answer))
    /\ UNCHANGED <<newdev, pc, loc>>
    /\ UNCHANGED <<promptVars, ctxVars>>

\* dev.mode = m
AssignMode ==
    /\ pc = "idle"
    /\ ret = NoRet
    /\ IsLive(dev)
    /\ \E m \in Modes, answer \in {"ok", "raise"} :
          ModeSet("mode.setter", m, 0, None, mode_setter(dev, m, answer))
    /\ UNCHANGED <<newdev, pc, loc>>
    /\ UNCHANGED <<promptVars, ctxVars>>

NextMode == ConstructForMode \/ SetMode \/ AssignMode \/ Ack \/ Discard

SpecMode == Init /\ [][NextMode]_vars

(***************************************************************************)
(* Discovery and transport switching.                                      *)
(***************************************************************************)
MaxLifeRecs == 1

LifeVersions == {<<2, 4, 3>>, <<3, 2, 0>>, <<3, 4, 3>>, <<4, 0, 0>>, <<4, 1, 5>>}

LifeBlobs ==
    BlobsOf(SeqsUpTo({<<YK4_CAPA_TAG, <<63>>>>, <<YK4_CAPA_TAG, <<7>>>>,
                      <<YK4_SERIAL_TAG, <<2>>>>}, MaxLifeRecs))

Answers == {"none", "raise", "driver"}

\* The attached device, as far as a driver reports it.  A transport can
\* answer with a driver only if the device's mode enables the transport.
Attached(answers) ==
    IF \E t \in DOMAIN answers : answers[t] = "driver"
    THEN {a \in [version : LifeVersions, mode : Modes, serial : Serials,
                 sky : BOOLEAN] :
            \A t \in DOMAIN answers :
                answers[t] = "driver" => has_transport(a.mode, t)}
    ELSE {[version |-> <<0, 0, 0>>, mode |-> Mode(0), serial |-> None,
           sky |-> FALSE]}

\* The blobs and probe answers to enumerate for what the opens yield.
BlobsForOpen(mask, answers, att) ==
    BlobsFor(open_attempts(mask, answers, att).dev, LifeBlobs)
ProbesForOpen(mask, answers, att) ==
    ProbesFor(open_attempts(mask, answers, att).dev)

DeviceOpened(mask, r) ==
    /\ dev' = r.h
    /\ ret' = Ret("open_device", r.outcome, mask)
    /\ io' = r.calls

\* open_device(mask), called by the user.
OpenDevice ==
    /\ pc = "idle"
    /\ dev = NoHandle
    /\ ret = NoRet
    /\ \E mask \in 0..SumSet(TRANSPORT) :
       \E answers \in [TransportsIn(mask) -> Answers] :
       \E att \in Attached(answers) :
       \E blob \in BlobsForOpen(mask, answers, att),
          probe \in ProbesForOpen(mask, answers, att) :
             DeviceOpened(mask, open_device(mask, answers, att, blob, probe))
    /\ UNCHANGED <<newdev, pc, loc>>
    /\ UNCHANGED <<promptVars, ctxVars>>

UseTransportBegun(t, r) ==
    /\ dev' = r.h
    /\ loc' = r.loc
    /\ io' = r.calls
    /\ pc' = IF r.outcome = "released" THEN "released" ELSE "idle"
    /\ ret' = Ret("use_transport",
                  CASE r.outcome = "self" -> "returned"
                    [] r.outcome = "ValueError" -> "ValueError"
                    [] r.outcome = "released" -> "running",
                  [transport |-> t,
                   handle |-> IF r.outcome = "self" THEN "self" ELSE "none"])

\* dev.use_transport(t), lines 151-159: up to the call of open_device.
UseTransport ==
    /\ pc = "idle"
    /\ ret = NoRet
    /\ IsLive(dev)
    /\ newdev = NoHandle
    /\ \E t \in TRANSPORT : UseTransportBegun(t, use_transport_begin(dev, t))
    /\ UNCHANGED newdev
    /\ UNCHANGED <<promptVars, ctxVars>>

Raised(r) == r.outcome # "returned" /\ r.outcome # "None"

UseTransportOpened(r) ==
    /\ io' = io \o r.calls
    /\ pc' = IF Raised(r) THEN "idle" ELSE "opened"
    /\ loc' = IF Raised(r) THEN NoLoc ELSE [loc EXCEPT !.dev = r.h]
    /\ ret' = IF Raised(r)
              THEN Ret("use_transport", r.outcome,
                       [transport |-> loc.transport, handle |-> "none"])
              ELSE ret

\* dev.use_transport(t), line 161: dev = open_device(transport).  An
\* exception of open_device ends use_transport.
UseTransportOpen ==
    /\ pc = "released"
    /\ \E answers \in [TransportsIn(loc.transport) -> Answers] :
       \E att \in Attached(answers) :
       \E blob \in BlobsForOpen(loc.transport, answers, att),
          probe \in ProbesForOpen(loc.transport, answers, att) :
             UseTransportOpened(
                 open_device(loc.transport, answers, att, blob, probe))
    /\ UNCHANGED <<dev, newdev>>
    /\ UNCHANGED <<promptVars, ctxVars>>

UseTransportChecked(outcome) ==
    /\ newdev' = IF outcome = "returned" THEN loc.dev ELSE NoHandle
    /\ ret' = Ret("use_transport", outcome,
                  [transport |-> loc.transport,
                   handle |-> IF outcome = "returned" THEN "new" ELSE "none"])

\* dev.use_transport(t), lines 162-165: the checks and the return.
UseTransportCheck ==
    /\ pc = "opened"
    /\ UseTransportChecked(use_transport_check(loc))
    /\ pc' = "idle"
    /\ loc' = NoLoc
    /\ UNCHANGED <<dev, io>>
    /\ UNCHANGED <<promptVars, ctxVars>>

\* dev = dev.use_transport(t): the caller keeps the new handle only.
Adopt ==
    /\ pc = "idle"
    /\ newdev # NoHandle
    /\ dev' = newdev
    /\ newdev' = NoHandle
    /\ ret' = NoRet
    /\ io' = <<>>
    /\ UNCHANGED <<pc, loc>>
    /\ UNCHANGED <<promptVars, ctxVars>>

Next ==
    \/ OpenDevice
    \/ UseTransport
    \/ UseTransportOpen
    \/ UseTransportCheck
    \/ Adopt
    \/ Ack
    \/ Discard

Spec == Init /\ [][Next]_vars

(***************************************************************************)
(* prompt_timeout (src/ykman/cli/util.py, lines 228-235) and the Timer it  *)
(* starts.  A Timer is a thread that runs                                  *)
(*     finished.wait(interval)                                             *)
(*     if not finished.is_set(): function()                                *)
(*     finished.set()                                                      *)
(* and whose cancel() is finished.set().  Each step of the thread and each *)
(* line of prompt_timeout is one action; time is a clock of ticks.         *)
(*   now      the clock                                                    *)
(*   mainpc   the thread that runs "with prompt_timeout(t):": "idle",      *)
(*            "created" (line 230 done), "block" (the guarded block        *)
(*            runs), "finally" (the block is left, cancel() not yet        *)
(*            called)                                                      *)
(*   timers   one record per guarded block entered so far: the Timer of    *)
(*            the block (interval, tpc, finished, deadline, fired,         *)
(*            printed, out) and when the block started its timer, was      *)
(*            left, and called cancel()                                    *)
(***************************************************************************)
MaxBlocks == 1
MaxTime == 2
MaxDelay == 2

Delays == 0..MaxDelay

\* Line 230: Timer(timeout, prompt_for_touch), not yet started.
NewTimer(timeout) ==
    [interval |-> timeout, tpc |-> "new", finished |-> FALSE,
     deadline |-> None, fired |-> 0, printed |-> 0, out |-> "none",
     startedAt |-> None, exitedAt |-> None, exitHow |-> "none",
     cancelledAt |-> None]

\* Line 232: timer.start() has created the thread.
timer_start(t, clock) == [t EXCEPT !.tpc = "started", !.startedAt = clock]

\* The guarded block is left at clock, normally or by an exception.
block_exit(t, clock, how) == [t EXCEPT !.exitedAt = clock, !.exitHow = how]

\* timer_cancel that leaves the finished flag alone.
timer_cancel_noop(t, clock) == [t EXCEPT !.cancelledAt = clock]

\* Line 235: timer.cancel().
timer_cancel(t, clock) ==
    [t EXCEPT !.finished = TRUE, !.cancelledAt = clock]

\* The thread calls finished.wait(interval).
timer_wait(t, clock) ==
    [t EXCEPT !.tpc = "waiting", !.deadline = clock + t.interval]

\* wait returns when the flag is set or the interval has passed.
timer_wakes(t, clock) == t.finished \/ clock >= t.deadline

\* "if not self.finished.is_set()": the function is called, or skipped.
timer_test(t) ==
    IF ~t.finished
    THEN [t EXCEPT !.tpc = "calling", !.fired = @ + 1]
    ELSE [t EXCEPT !.tpc = "setting"]

\* Lines 220-225: the prompt goes to click.echo, or to sys.stderr if that
\* raised.
prompt_for_touch(t, echo) ==
    [t EXCEPT !.tpc = "setting", !.printed = @ + 1,
              !.out = IF echo = "ok" THEN "click.echo" ELSE "sys.stderr"]

\* The thread's last statement, finished.set().
timer_finish(t) == [t EXCEPT !.tpc = "done", !.finished = TRUE]

\* The guarded block the main thread is in is the last one entered.
Cur == Len(timers)

\* Line 230.
PromptTimeout ==
    /\ mainpc = "idle"
    /\ Len(timers) < MaxBlocks
    /\ \E timeout \in Delays : timers' = Append(timers, NewTimer(timeout))
    /\ mainpc' = "created"
    /\ UNCHANGED <<now, deviceVars, ctxVars>>

\* Lines 231-233: timer.start(), then the block runs; if start() raises
\* the finally clause is next and the block never runs.
TimerStart ==
    /\ mainpc = "created"
    /\ \E started \in BOOLEAN :
          IF started
          THEN /\ timers' = [timers EXCEPT ![Cur] = timer_start(@, now)]
               /\ mainpc' = "block"
          ELSE /\ timers' = [timers EXCEPT
                                ![Cur] = block_exit(@, now, "start_error")]
               /\ mainpc' = "finally"
    /\ UNCHANGED <<now, deviceVars, ctxVars>>

\* Line 233: the block ends, by its last statement or by an exception.
BlockExit ==
    /\ mainpc = "block"
    /\ \E how \in {"normal", "exception"} :
          timers' = [timers EXCEPT ![Cur] = block_exit(@, now, how)]
    /\ mainpc' = "finally"
    /\ UNCHANGED <<now, deviceVars, ctxVars>>

\* Lines 234-235.
TimerCancel ==
    /\ mainpc = "finally"
    /\ timers' = [timers EXCEPT ![Cur] = timer_cancel(@, now)]
    /\ mainpc' = "idle"
    /\ UNCHANGED <<now, deviceVars, ctxVars>>

\* The steps of a timer thread.
TimerRun ==
    /\ \E i \in DOMAIN timers :
          /\ timers[i].tpc = "started"
          /\ timers' = [timers EXCEPT ![i] = timer_wait(@, now)]
    /\ UNCHANGED <<now, mainpc, deviceVars, ctxVars>>

TimerWake ==
    /\ \E i \in DOMAIN timers :
          /\ timers[i].tpc = "waiting"
          /\ timer_wakes(timers[i], now)
          /\ timers' = [timers EXCEPT ![i].tpc = "woken"]
    /\ UNCHANGED <<now, mainpc, deviceVars, ctxVars>>

TimerTest ==
    /\ \E i \in DOMAIN timers :
          /\ timers[i].tpc = "woken"
          /\ timers' = [timers EXCEPT ![i] = timer_test(@)]
    /\ UNCHANGED <<now, mainpc, deviceVars, ctxVars>>

TimerFire ==
    /\ \E i \in DOMAIN timers, echo \in {"ok", "raise"} :
          /\ timers[i].tpc = "calling"
          /\ timers' = [timers EXCEPT ![i] = prompt_for_touch(@, echo)]
    /\ UNCHANGED <<now, mainpc, deviceVars, ctxVars>>

TimerFinish ==
    /\ \E i \in DOMAIN timers :
          /\ timers[i].tpc = "setting"
          /\ timers' = [timers EXCEPT ![i] = timer_finish(@)]
    /\ UNCHANGED <<now, mainpc, deviceVars, ctxVars>>

\* Time passes.
Tick ==
    /\ now < MaxTime
    /\ now' = now + 1
    /\ UNCHANGED <<mainpc, timers, deviceVars, ctxVars>>

NextPrompt ==
    \/ PromptTimeout
    \/ TimerStart
    \/ BlockExit
    \/ TimerCancel
    \/ TimerRun
    \/ TimerWake
    \/ TimerTest
    \/ TimerFire
    \/ TimerFinish
    \/ Tick

SpecPrompt == Init /\ [][NextPrompt]_vars

(***************************************************************************)
(* YkmanContextObject (src/ykman/cli/util.py, lines 153-185): add_resolver,*)
(* resolve, __getitem__, __setitem__ and __delitem__, with resolvers that  *)
(* look keys up, store and delete entries and register further resolvers   *)
(* while they run, and that return or raise.  The other methods of         *)
(* MutableMapping (pop, popitem, clear, update, setdefault, __contains__)  *)
(* are sequences of __getitem__, __setitem__ and __delitem__; __len__ and  *)
(* __iter__ change nothing.                                                *)
(*   objects   the OrderedDict _objects: a sequence of [key, val], val a   *)
(*             resolver not yet called, the result of a resolver, or a     *)
(*             value stored by __setitem__                                 *)
(*   resolved  the flag _resolved                                          *)
(*   stack     the calls in progress, innermost last: the loop of          *)
(*             resolve() (with the entries of its copy still to call and   *)
(*             the key __getitem__ was asked for, "" for resolve()), and   *)
(*             running resolvers (with the key their result goes to)       *)
(*   invoked   how often each registered resolver has been called          *)
(*   got       what the last __getitem__ that returned gave, and to whom   *)
(*             (by = 0 the caller, else the resolver that asked)           *)
(*   cret      how the caller's last add_resolver, resolve or __getitem__  *)
(*             ended (__setitem__ and __delitem__ leave it)                *)
(*   returned  the resolvers that have returned: their results exist, in   *)
(*             _objects or in the hands of whoever looked them up          *)
(*   wrote     whether a __setitem__ or a __delitem__ has changed _objects *)
(***************************************************************************)
MaxResolvers == 3

Keys == {"a", "b"}

Resolver(id) == [kind |-> "resolver", id |-> id]
Result(id) == [kind |-> "result", id |-> id]

\* A value that is neither a resolver nor a resolver's result.
Value == [kind |-> "value", id |-> 0]

HasKey(objs, k) == \E i \in DOMAIN objs : objs[i].key = k

\* self._objects[key]
Lookup(objs, k) == objs[CHOOSE i \in DOMAIN objs : objs[i].key = k].val

\* self._objects[key] = v: a key already present keeps its place.
Store(objs, k, v) ==
    IF HasKey(objs, k)
    THEN [i \in DOMAIN objs |->
             IF objs[i].key = k THEN [key |-> k, val |-> v] ELSE objs[i]]
    ELSE Append(objs, [key |-> k, val |-> v])

\* del self._objects[key]
Remove(objs, k) == SelectSeq(objs, LAMBDA e : e.key # k)

\* What __setitem__ can be given, and stores as it is: a value of the
\* caller's, a function registered as a resolver (the registrant holds it,
\* and a lookup can return it), or the result of a resolver that has
\* returned, whether _objects still holds it or not.
Storable(registered, results) ==
    {Value} \cup {Resolver(id) : id \in registered}
            \cup {Result(id) : id \in results}

LoopFrame(pending, key) == [kind |-> "resolve", pending |-> pending, key |-> key]
CallFrame(id, key) == [kind |-> "f", id |-> id, key |-> key]

Top == stack[Len(stack)]
Pop == SubSeq(stack, 1, Len(stack) - 1)

\* A resolver is running (and may call the context object).
InResolver == stack # <<>> /\ Top.kind = "f"

CallEnded(op, outcome) == [op |-> op, outcome |-> outcome]

\* Line 171: return self._objects[key], to the caller.
getitem_return(key) ==
    IF HasKey(objects, key)
    THEN /\ got' = [key |-> key, val |-> Lookup(objects, key), by |-> 0]
         /\ cret' = CallEnded("__getitem__", "returned")
    ELSE /\ got' = got
         /\ cret' = CallEnded("__getitem__", "KeyError")

\* Lines 158-161: add_resolver(key, f), by the caller or by a running
\* resolver.  Resolved: f is called at once (line 160) and its result is
\* stored when it returns.
AddResolver ==
    /\ stack = <<>> \/ InResolver
    /\ Len(invoked) < MaxResolvers
    /\ \E key \in Keys :
          IF resolved
          THEN /\ invoked' = Append(invoked, 1)
               /\ stack' = Append(stack, CallFrame(Len(invoked) + 1, key))
               /\ objects' = objects
               /\ cret' = IF stack = <<>>
                          THEN CallEnded("add_resolver", "running") ELSE cret
          ELSE /\ invoked' = Append(invoked, 0)
               /\ objects' = Store(objects, key, Resolver(Len(invoked) + 1))
               /\ stack' = stack
               /\ cret' = CallEnded("add_resolver", "returned")
    /\ UNCHANGED <<resolved, got, returned, wrote,
                   deviceVars, promptVars>>

\* Lines 173-176: self[key] = value, by the caller or by a running
\* resolver.  Unresolved, it raises ValueError and stores nothing.
SetItem ==
    /\ stack = <<>> \/ InResolver
    /\ \E key \in Keys, v \in Storable(DOMAIN invoked, returned) :
          objects' = IF resolved THEN Store(objects, key, v) ELSE objects
    /\ wrote' = (wrote \/ objects' # objects)
    /\ UNCHANGED <<resolved, stack, invoked, got, cret, returned,
                   deviceVars, promptVars>>

\* Lines 178-179: del self[key], by the caller or by a running resolver,
\* resolved or not.  A key not present raises KeyError.
DelItem ==
    /\ stack = <<>> \/ InResolver
    /\ \E key \in Keys :
          objects' = IF HasKey(objects, key) THEN Remove(objects, key)
                     ELSE objects
    /\ wrote' = (wrote \/ objects' # objects)
    /\ UNCHANGED <<resolved, stack, invoked, got, cret, returned,
                   deviceVars, promptVars>>

\* Lines 163-166, by the caller: the flag is set, then the loop starts on
\* a copy of _objects; resolved already, nothing is done.
Resolve ==
    /\ stack = <<>>
    /\ IF resolved
       THEN /\ cret' = CallEnded("resolve", "returned")
            /\ UNCHANGED <<resolved, stack>>
       ELSE /\ resolved' = TRUE
            /\ stack' = <<LoopFrame(objects, "")>>
            /\ cret' = CallEnded("resolve", "running")
    /\ UNCHANGED <<objects, invoked, got, returned, wrote,
                   deviceVars, promptVars>>

\* Lines 169-171, by the caller: resolve(), then the lookup.
GetItem ==
    /\ stack = <<>>
    /\ \E key \in Keys :
          IF resolved
          THEN /\ getitem_return(key)
               /\ UNCHANGED <<resolved, stack>>
          ELSE /\ resolved' = TRUE
               /\ stack' = <<LoopFrame(objects, key)>>
               /\ cret' = CallEnded("__getitem__", "running")
               /\ got' = got
    /\ UNCHANGED <<objects, invoked, returned, wrote,
                   deviceVars, promptVars>>

\* Lines 169-171, by a running resolver: the flag is set, so resolve()
\* does nothing and the entry is returned as it is.
ResolverGetItem ==
    /\ InResolver
    /\ resolved
    /\ \E key \in Keys :
          /\ HasKey(objects, key)
          /\ got' = [key |-> key, val |-> Lookup(objects, key), by |-> Top.id]
    /\ UNCHANGED <<objects, resolved, stack, invoked, cret,
                   returned, wrote,
                   deviceVars, promptVars>>

\* Lines 166-167: the loop calls the next resolver of its copy.
LoopCall ==
    /\ stack # <<>>
    /\ Top.kind = "resolve"
    /\ Top.pending # <<>>
    /\ invoked' = [invoked EXCEPT ![Head(Top.pending).val.id] = @ + 1]
    /\ stack' = Append([stack EXCEPT ![Len(stack)].pending = Tail(@)],
                       CallFrame(Head(Top.pending).val.id,
                                 Head(Top.pending).key))
    /\ UNCHANGED <<objects, resolved, got, cret, returned, wrote,
                   deviceVars, promptVars>>

\* Line 166, the copy exhausted: resolve() returns, and __getitem__ goes on
\* to line 171.
LoopEnd ==
    /\ stack # <<>>
    /\ Top.kind = "resolve"
    /\ Top.pending = <<>>
    /\ stack' = Pop
    /\ IF Top.key = ""
       THEN /\ cret' = CallEnded("resolve", "returned")
            /\ got' = got
       ELSE getitem_return(Top.key)
    /\ UNCHANGED <<objects, resolved, invoked, returned, wrote,
                   deviceVars, promptVars>>

\* Lines 160-161 and 167: a resolver returns and its result is stored
\* under its key.
ResolverReturn ==
    /\ InResolver
    /\ objects' = Store(objects, Top.key, Result(Top.id))
    /\ returned' = returned \cup {Top.id}
    /\ stack' = Pop
    /\ cret' = IF Pop = <<>> THEN CallEnded("add_resolver", "returned")
               ELSE cret
    /\ UNCHANGED <<resolved, invoked, got, wrote,
                   deviceVars, promptVars>>

\* A resolver raises, by a raise of its own or by letting through an
\* exception of a call it made (a KeyError, a ValueError, the exception of
\* a resolver it registered).  Its call is left and nothing is stored
\* under its key.  Called by the loop of resolve() (line 167), the
\* exception leaves the loop and resolve() too, with the flag set, and
\* reaches the caller.  Called by add_resolver (line 160) for a running
\* resolver, the exception arrives in that resolver, which goes on: it
\* catches and continues, or raises in its turn.
ResolverRaise ==
    /\ InResolver
    /\ stack' = IF Len(stack) >= 2 /\ stack[Len(stack) - 1].kind = "f"
                THEN Pop ELSE <<>>
    /\ cret' = IF Len(stack) >= 2 /\ stack[Len(stack) - 1].kind = "f"
               THEN cret ELSE CallEnded(cret.op, "raised")
    /\ UNCHANGED <<objects, resolved, invoked, got, returned, wrote,
                   deviceVars, promptVars>>

NextContext ==
    \/ AddResolver
    \/ Resolve
    \/ GetItem
    \/ SetItem
    \/ DelItem
    \/ ResolverGetItem
    \/ LoopCall
    \/ LoopEnd
    \/ ResolverReturn
    \/ ResolverRaise

SpecContext == Init /\ [][NextContext]_vars

(***************************************************************************)
(* Helpers of the properties.                                              *)
(***************************************************************************)
OpenCalls == {"open_ccid", "open_otp", "open_u2f"}

IsOpenCall(c) == c.call \in OpenCalls

\* The transport opens of the last call, in the order they were made.
OpenLog == SelectSeq(io, IsOpenCall)

\* Priority and transport flag of an open, as the specification states them.
OpenRank(c) ==
    CASE c.call = "open_ccid" -> 1 [] c.call = "open_otp" -> 2
      [] c.call = "open_u2f" -> 3
OpenFlag(c) ==
    CASE c.call = "open_ccid" -> 4 [] c.call = "open_otp" -> 1
      [] c.call = "open_u2f" -> 2

\* A serial is present if it is neither None nor 0 (Python truthiness).
Present(x) == x # -1 /\ x # 0

\* The handle open_device returned is not the device use_transport left.
Mismatch(l) ==
    /\ IsHandle(l.dev)
    /\ \/ /\ Present(PyOr(l.dev.tlv_serial, l.dev.driver.serial))
          /\ Present(l.my_serial)
          /\ PyOr(l.dev.tlv_serial, l.dev.driver.serial) # l.my_serial
       \/ l.dev.driver.mode # l.my_mode

LiveCount ==
    (IF IsLive(dev) THEN 1 ELSE 0)
    + (IF IsLive(newdev) THEN 1 ELSE 0)
    + (IF pc = "opened" /\ IsLive(loc.dev) THEN 1 ELSE 0)

(***************************************************************************)
(* C1: every bit set in enabled is also set in capabilities, for every     *)
(* handle YubiKey(driver) produces.  The code breaks it, e.g. for the Edge *)
(* override after a blob without tag 0x03, and for an empty blob.          *)
(***************************************************************************)
C1_EnabledSubsetOfCapabilities ==
    IsHandle(dev) => AndNot(dev.enabled, dev.capabilities) = 0

(***************************************************************************)
(* C2: when use_transport has reopened the device on another transport     *)
(* and the new handle's serial differs from the captured serial (both      *)
(* present) or its mode differs from the captured mode, the call ends with *)
(* the consistency fault (AssertionError) and returns no handle; a handle  *)
(* it returns is the opened one and matches.                               *)
(***************************************************************************)
C2_MismatchIsConsistencyFault ==
    [][pc = "opened" =>
          /\ Mismatch(loc) =>
                ret'.outcome = "AssertionError" /\ newdev' = NoHandle
          /\ IsHandle(newdev') => ~Mismatch(loc) /\ newdev' = loc.dev]_vars

C2_Witness ==
    /\ ret.op = "use_transport"
    /\ ret.outcome = "AssertionError"
    /\ newdev = NoHandle

(***************************************************************************)
(* C3 as claimed: a handle use_transport returns has the capability mask   *)
(* and the serial of the handle it was called on.                          *)
(***************************************************************************)
C3_Original ==
    [][(pc = "opened" /\ IsHandle(newdev')) =>
          /\ newdev'.capabilities = dev.capabilities
          /\ serial(newdev') = loc.my_serial]_vars

(***************************************************************************)
(* C3 as amended: a handle use_transport returns after a switch has the    *)
(* captured mode, and the captured serial whenever both serials are        *)
(* present; on the fast path the handle itself is returned, unchanged.     *)
(* The capability mask is not compared.                                    *)
(***************************************************************************)
C3_ModeAndSerialPreserved ==
    [][/\ (pc = "opened" /\ IsHandle(newdev')) =>
             /\ newdev'.driver.mode = loc.my_mode
             /\ (Present(serial(newdev')) /\ Present(loc.my_serial)) =>
                    serial(newdev') = loc.my_serial
       /\ (ret'.op = "use_transport" /\ ret'.outcome = "returned"
           /\ pc = "idle") =>
             dev' = dev /\ newdev' = NoHandle]_vars

\* A returned handle whose capability mask is not the original's.
C3_Witness ==
    /\ IsHandle(newdev)
    /\ ret.outcome = "returned"
    /\ newdev.capabilities # dev.capabilities

(***************************************************************************)
(* C4: use_transport releases the old driver before open_device opens the  *)
(* new transport: at most one live driver exists in every state, the       *)
(* handle holds the null driver from the release on, and a returned new    *)
(* handle is the only one holding a live driver.                           *)
(***************************************************************************)
C4_OwnershipTransfer ==
    /\ LiveCount <= 1
    /\ pc \in {"released", "opened"} =>
          dev.driver = NULL_DRIVER /\ io[1].call = "release"
    /\ ret.op = "use_transport" =>
          \A i \in DOMAIN io :
              IsOpenCall(io[i]) => \E j \in 1..(i - 1) : io[j].call = "release"
    /\ IsHandle(newdev) => dev.driver = NULL_DRIVER /\ IsLive(newdev)

C4_Witness ==
    /\ ret.op = "use_transport"
    /\ ret.outcome = "returned"
    /\ IsLive(newdev)
    /\ dev.driver = NULL_DRIVER

(***************************************************************************)
(* C5: an open that raises is the last open of the call: the call ends     *)
(* with FailedOpeningDeviceException and no handle.                        *)
(***************************************************************************)
C5_FailFast ==
    \A i \in DOMAIN io :
        (IsOpenCall(io[i]) /\ io[i].args[1] = "raise") =>
            /\ i = Len(io)
            /\ ret.outcome = "FailedOpeningDeviceException"
            /\ pc = "idle"
            /\ ~IsLive(dev)
            /\ newdev = NoHandle

\* CCID found nothing, OTP raised, U2F was in the mask and was not tried.
C5_Witness ==
    /\ ret.op = "open_device"
    /\ ret.arg = 7
    /\ ret.outcome = "FailedOpeningDeviceException"
    /\ Len(io) = 2
    /\ io[2].call = "open_otp"

(***************************************************************************)
(* C6: open_device(mask) opens transports in the order CCID, OTP, U2F,     *)
(* each at most once, only those in the mask, and none after one yielded a *)
(* driver; a transport of the mask is skipped only after a driver or an    *)
(* exception; the handle wraps the driver of the first transport that      *)
(* yielded one; a mask without CCID never opens CCID.                      *)
(***************************************************************************)
C6_PriorityOrder ==
    ret.op = "open_device" =>
        /\ \A i, j \in DOMAIN OpenLog :
              i < j => OpenRank(OpenLog[i]) < OpenRank(OpenLog[j])
        /\ \A i \in DOMAIN OpenLog :
              /\ BitAnd(OpenFlag(OpenLog[i]), ret.arg) # 0
              /\ OpenLog[i].args[1] = "driver" => i = Len(OpenLog)
        /\ \A name \in OpenCalls :
              (/\ BitAnd(OpenFlag([call |-> name]), ret.arg) # 0
               /\ \A i \in DOMAIN OpenLog : OpenLog[i].call # name) =>
                  \E i \in DOMAIN OpenLog :
                      /\ OpenRank(OpenLog[i]) < OpenRank([call |-> name])
                      /\ OpenLog[i].args[1] \in {"driver", "raise"}
        /\ IsHandle(dev) =>
              /\ Len(OpenLog) > 0
              /\ OpenLog[Len(OpenLog)].args[1] = "driver"
              /\ dev.driver.transport = OpenFlag(OpenLog[Len(OpenLog)])
        /\ BitAnd(4, ret.arg) = 0 =>
              \A i \in DOMAIN OpenLog : OpenLog[i].call # "open_ccid"

\* CCID found nothing and the handle wraps the OTP driver; U2F not tried.
C6_Witness ==
    /\ ret.op = "open_device"
    /\ ret.arg = 7
    /\ IsHandle(dev)
    /\ dev.driver.transport = 1
    /\ Len(OpenLog) = 2

(***************************************************************************)
(* C7: when every open of open_device found no device (none raised),       *)
(* open_device returns None: no error, no handle, no YubiKey constructed.  *)
(***************************************************************************)
C7_AbsenceIsNone ==
    (ret.op = "open_device"
     /\ \A i \in DOMAIN OpenLog : OpenLog[i].args[1] = "none") =>
        /\ ret.outcome = "None"
        /\ dev = NoHandle
        /\ io = OpenLog

C7_Witness ==
    /\ ret.op = "open_device"
    /\ ret.outcome = "None"
    /\ Len(OpenLog) = 3

(***************************************************************************)
(* C8 as claimed: every mode change (set_mode, or the mode setter) to a    *)
(* mode whose transports are not all in the capability mask fails with     *)
(* ValueError and makes no driver call.                                    *)
(***************************************************************************)
C8_Original ==
    (ret.op \in {"set_mode", "mode.setter"}
     /\ AndNot(ret.arg.mode.transports, dev.capabilities) # 0) =>
        ret.outcome = "ValueError" /\ io = <<>>

(***************************************************************************)
(* C8 as amended: assigning the mode property a mode whose transports are  *)
(* not all in the capability mask fails with ValueError before any I/O:    *)
(* no driver call, the handle and the cached mode unchanged.  (set_mode    *)
(* called directly makes no such check.)                                   *)
(***************************************************************************)
C8_SetterRejectsUnsupportedMode ==
    [][(ret = NoRet /\ ret'.op = "mode.setter"
        /\ AndNot(ret'.arg.mode.transports, dev.capabilities) # 0) =>
          /\ ret'.outcome = "ValueError"
          /\ io' = <<>>
          /\ dev' = dev]_vars

C8_Witness ==
    /\ ret.op = "mode.setter"
    /\ ret.outcome = "ValueError"
    /\ AndNot(ret.arg.mode.transports, dev.capabilities) # 0

(***************************************************************************)
(* C9 as claimed: on firmware <= 3.3.1 a mode change to the mode of code 2 *)
(* hands the driver the flag byte 0x80.                                    *)
(***************************************************************************)
C9_Original ==
    (ret.op \in {"set_mode", "mode.setter"} /\ io # <<>>
     /\ ret.arg.mode.code = 2
     /\ VersionLE(dev.driver.version, <<3, 3, 1>>)) =>
        io[1].args[1] = 128

(***************************************************************************)
(* C9 as amended: on firmware <= 3.3.1 a mode change to the mode of code 2 *)
(* hands the driver the byte 0x82 (0x80 ORed with the code), with or       *)
(* without autoeject; on firmware above 3.3.1 the byte is the code 2, with *)
(* 0x80 ORed in exactly when autoeject_time is given.                      *)
(***************************************************************************)
C9_LegacyQuirk ==
    (ret.op \in {"set_mode", "mode.setter"} /\ io # <<>>
     /\ ret.arg.mode.code = 2) =>
        io[1].args[1] =
            IF VersionLE(dev.driver.version, <<3, 3, 1>>) THEN 130
            ELSE IF ret.arg.autoeject_time = -1 THEN 2
            ELSE 130

\* Firmware 3.3.0, mode code 2, no autoeject: the byte is 0x82.
C9_Witness ==
    /\ ret.op = "set_mode"
    /\ io # <<>>
    /\ dev.driver.version = <<3, 3, 0>>
    /\ ret.arg.mode.code = 2
    /\ ret.arg.autoeject_time = -1
    /\ io[1].args[1] = 130

(***************************************************************************)
(* C10: use_transport(t) with t the handle's current transport returns the *)
(* handle itself and changes nothing: no driver call, no release, no       *)
(* discovery.                                                              *)
(***************************************************************************)
C10_FastPath ==
    [][(pc = "idle" /\ ret = NoRet /\ ret'.op = "use_transport"
        /\ ret'.arg.transport = dev.driver.transport) =>
          /\ ret'.outcome = "returned"
          /\ ret'.arg.handle = "self"
          /\ dev' = dev
          /\ newdev' = NoHandle
          /\ pc' = "idle"
          /\ io' = <<>>]_vars

C10_Witness ==
    /\ ret.op = "use_transport"
    /\ ret.outcome = "returned"
    /\ ret.arg.handle = "self"
    /\ IsLive(dev)
    /\ ret.arg.transport = dev.driver.transport
    /\ io = <<>>

(***************************************************************************)
(* C11: use_transport(t) with t not the handle's transport and not enabled *)
(* in the handle's mode ends with the unsupported-transport error          *)
(* (ValueError) before any I/O: the handle keeps its live driver, nothing  *)
(* is released, no transport is opened and no handle is returned.          *)
(***************************************************************************)
C11_UnsupportedTransportBeforeIO ==
    [][(pc = "idle" /\ ret = NoRet /\ ret'.op = "use_transport"
        /\ ret'.arg.transport # dev.driver.transport
        /\ BitAnd(dev.driver.mode.transports, ret'.arg.transport)
              # ret'.arg.transport) =>
          /\ ret'.outcome = "ValueError"
          /\ dev' = dev
          /\ dev'.driver # NULL_DRIVER
          /\ newdev' = NoHandle
          /\ pc' = "idle"
          /\ io' = <<>>]_vars

C11_Witness ==
    /\ ret.op = "use_transport"
    /\ ret.outcome = "ValueError"
    /\ io = <<>>
    /\ IsLive(dev)
    /\ ret.arg.transport # dev.driver.transport
    /\ BitAnd(dev.driver.mode.transports, ret.arg.transport) = 0

(***************************************************************************)
(* Helpers of the properties on the capability blob: the blob              *)
(* read_capabilities() answered in the last call, and its decoded records. *)
(***************************************************************************)
ReadBlob == IF io # <<>> /\ io[1].call = "read_capabilities"
            THEN io[1].args ELSE <<>>

Decoded(blob) ==
    parse_tlv_list(SubSeq(blob, 2, Min(Len(blob), blob[1] + 1))).map

(***************************************************************************)
(* C12: for a handle built on the TLV path (firmware >= 4.1.0, not a       *)
(* security key) from a non-empty capability blob, enabled is exactly the  *)
(* decoded value of tag 0x03 if the tag is present, the value 0 included,  *)
(* and the handle's capability mask if it is absent.  The code breaks it:  *)
(* a decoded enabled of 0 is replaced by the mode-derived default.         *)
(***************************************************************************)
C12_EnabledFromTlv ==
    (ret.op = "YubiKey" /\ IsHandle(dev) /\ Len(ReadBlob) > 0
     /\ VersionGE(dev.driver.version, <<4, 1, 0>>)) =>
        IF 3 \in DOMAIN Decoded(ReadBlob)
        THEN dev.enabled = BigEndian(Decoded(ReadBlob)[3])
        ELSE dev.enabled = dev.capabilities

(***************************************************************************)
(* C13: for a handle built on the TLV path (firmware >= 4.1.0) from a blob *)
(* that holds tag 0x01: if the tag decodes to exactly 0x07 the handle is   *)
(* the Edge variant with capabilities exactly OTP|U2F (0x03, the CCID bit  *)
(* cleared); for any other decoded value it is 'YubiKey 4' with            *)
(* capabilities equal to the decoded value.                                *)
(***************************************************************************)
C13_EdgeOverride ==
    (ret.op = "YubiKey" /\ IsHandle(dev) /\ Len(ReadBlob) > 0
     /\ VersionGE(dev.driver.version, <<4, 1, 0>>)
     /\ 1 \in DOMAIN Decoded(ReadBlob)) =>
        IF BigEndian(Decoded(ReadBlob)[1]) = 7
        THEN dev.device_name = "YubiKey Edge" /\ dev.capabilities = 3
        ELSE /\ dev.device_name = "YubiKey 4"
             /\ dev.capabilities = BigEndian(Decoded(ReadBlob)[1])

\* Firmware 4.1.5, tag 0x01 = 0x07: the Edge variant with OTP|U2F.
C13_Witness ==
    /\ ret.op = "YubiKey"
    /\ IsHandle(dev)
    /\ dev.driver.version = <<4, 1, 5>>
    /\ ReadBlob = <<3, 1, 1, 7>>
    /\ dev.device_name = "YubiKey Edge"
    /\ dev.capabilities = 3

(***************************************************************************)
(* C14: the classification of YubiKey(driver) is ordered, first match      *)
(* wins, and exactly one branch applies: a security key on U2F gets        *)
(* capabilities {U2F} whatever its version, with no driver call; otherwise *)
(* version >= 4.1.0 reads the capability blob (TLV path), a version in     *)
(* [4.0.0, 4.1.0) gets the fixed {OTP, U2F} with no driver call, a version *)
(* in [3.0.0, 4.0.0) is the NEO, and an older one gets {OTP} only.         *)
(* ret.arg is the driver the handle was built on.                          *)
(***************************************************************************)
C14_OrderedClassification ==
    (ret.op = "YubiKey" /\ ret.arg # NoDriver) =>
        IF ret.arg.transport = 2 /\ ret.arg.sky THEN
            /\ ret.outcome = "returned"
            /\ dev.device_name = "Security Key by Yubico"
            /\ dev.capabilities = 2
            /\ io = <<>>
        ELSE IF VersionGE(ret.arg.version, <<4, 1, 0>>) THEN
            /\ Len(io) = 1
            /\ io[1].call = "read_capabilities"
            /\ IsHandle(dev) => dev.device_name \in {"YubiKey 4", "YubiKey Edge"}
        ELSE IF VersionGE(ret.arg.version, <<4, 0, 0>>) THEN
            /\ ret.outcome = "returned"
            /\ dev.device_name = "YubiKey Plus"
            /\ dev.capabilities = 3
            /\ io = <<>>
        ELSE IF VersionGE(ret.arg.version, <<3, 0, 0>>) THEN
            /\ ret.outcome = "returned"
            /\ dev.device_name = "YubiKey NEO"
            /\ \A i \in DOMAIN io : io[i].call # "read_capabilities"
        ELSE
            /\ ret.outcome = "returned"
            /\ dev.device_name = "YubiKey"
            /\ dev.capabilities = 1
            /\ io = <<>>

\* A security key of firmware 4.1.5 on U2F: {U2F}, the blob is not read.
C14_Witness ==
    /\ ret.op = "YubiKey"
    /\ ret.arg # NoDriver
    /\ ret.arg.sky
    /\ ret.arg.version = <<4, 1, 5>>
    /\ dev.capabilities = 2
    /\ io = <<>>

(***************************************************************************)
(* C15: for a NEO (firmware in [3.0.0, 4.0.0), not a security key): on the *)
(* CCID transport probe_capabilities_support() is called once and the      *)
(* capabilities are exactly what it answered; on any other transport no    *)
(* driver call is made and the capabilities are OTP|U2F|CCID (0x07) if the *)
(* mode has U2F enabled or the version is >= 3.3.0, else OTP|CCID (0x05).  *)
(***************************************************************************)
C15_NeoCapabilities ==
    (ret.op = "YubiKey" /\ ret.arg # NoDriver
     /\ ~(ret.arg.transport = 2 /\ ret.arg.sky)
     /\ VersionGE(ret.arg.version, <<3, 0, 0>>)
     /\ ~VersionGE(ret.arg.version, <<4, 0, 0>>)) =>
        IF ret.arg.transport = 4
        THEN /\ Len(io) = 1
             /\ io[1].call = "probe_capabilities_support"
             /\ dev.capabilities = io[1].args
        ELSE /\ io = <<>>
             /\ dev.capabilities =
                   IF BitAnd(ret.arg.mode.transports, 2) = 2
                      \/ VersionGE(ret.arg.version, <<3, 3, 0>>)
                   THEN 7 ELSE 5

\* Firmware 3.2.0 on CCID: the capabilities are the probed 0x3d.
C15_Witness ==
    /\ ret.op = "YubiKey"
    /\ ret.arg # NoDriver
    /\ ret.arg.version = <<3, 2, 0>>
    /\ ret.arg.transport = 4
    /\ Len(io) = 1
    /\ io[1].args = 61
    /\ dev.capabilities = 61

(***************************************************************************)
(* C16: a successful set_mode(m, ...) makes exactly one driver call, the   *)
(* mode-change command, and leaves the handle as it was except that its    *)
(* driver's cached mode is m: handle.mode = m afterwards, and the driver's *)
(* transport, version and serial, the handle's serial, capabilities and    *)
(* enabled mask are unchanged; nothing is reopened.                        *)
(***************************************************************************)
C16_SetModeFrame ==
    [][(ret = NoRet /\ ret'.op = "set_mode" /\ ret'.outcome = "returned") =>
          /\ Len(io') = 1
          /\ io'[1].call = "set_mode"
          /\ dev'.driver.mode = ret'.arg.mode
          /\ dev' = [dev EXCEPT !.driver.mode = ret'.arg.mode]
          /\ dev'.driver.transport = dev.driver.transport
          /\ PyOr(dev'.tlv_serial, dev'.driver.serial)
                = PyOr(dev.tlv_serial, dev.driver.serial)
          /\ dev'.capabilities = dev.capabilities
          /\ dev'.enabled = dev.enabled
          /\ newdev' = NoHandle
          /\ pc' = "idle"]_vars

\* A handle on OTP whose cached mode is now CCID only: the mode was set
\* and the transport was left.
C16_Witness ==
    /\ ret.op = "set_mode"
    /\ ret.outcome = "returned"
    /\ Len(io) = 1
    /\ dev.driver.transport = 1
    /\ ret.arg.mode.code = 1
    /\ dev.driver.mode = ret.arg.mode

(***************************************************************************)
(* C17 as claimed: the flag byte handed to the driver is the mode's code,  *)
(* with 0x80 ORed in and the eject time passed through when autoeject_time *)
(* is given; when it is not given the eject time is 0 and bit 0x80 is not  *)
(* set in the flag byte.                                                   *)
(***************************************************************************)
C17_Original ==
    (ret.op \in {"set_mode", "mode.setter"} /\ io # <<>>) =>
        IF ret.arg.autoeject_time # -1
        THEN /\ io[1].args[1] = BitOr(ret.arg.mode.code, 128)
             /\ io[1].args[3] = ret.arg.autoeject_time
        ELSE /\ io[1].args[1] = ret.arg.mode.code
             /\ io[1].args[3] = 0

(***************************************************************************)
(* C17 as amended: the flag byte handed to the driver is the mode's code,  *)
(* with 0x80 ORed in and the eject time passed through unchanged when      *)
(* autoeject_time is given (0 included); when it is not given the eject    *)
(* time is 0 and bit 0x80 is not set, except on firmware <= 3.3.1 with the *)
(* mode of code 2, where the byte is 0x82.  cr_timeout is passed through.  *)
(***************************************************************************)
C17_FlagByte ==
    (ret.op \in {"set_mode", "mode.setter"} /\ io # <<>>) =>
        /\ io[1].args[2] = ret.arg.cr_timeout
        /\ IF ret.arg.autoeject_time # -1
           THEN /\ io[1].args[1] = BitOr(ret.arg.mode.code, 128)
                /\ io[1].args[3] = ret.arg.autoeject_time
           ELSE /\ io[1].args[3] = 0
                /\ io[1].args[1] =
                      IF VersionLE(dev.driver.version, <<3, 3, 1>>)
                         /\ ret.arg.mode.code = 2
                      THEN 130
                      ELSE ret.arg.mode.code

\* Mode code 3 with autoeject_time 1: the byte is 0x83, the eject time 1.
C17_Witness ==
    /\ ret.op = "set_mode"
    /\ io # <<>>
    /\ ret.arg.mode.code = 3
    /\ ret.arg.autoeject_time = 1
    /\ io[1].args[1] = 131
    /\ io[1].args[3] = 1

(***************************************************************************)
(* C19: a failed transport switch is not rolled back.  From the release on *)
(* the handle use_transport was called on holds the null driver, and so it *)
(* does after every outcome of the call: an exception of discovery, no     *)
(* device found, a failed consistency check, and success.  When discovery  *)
(* found no device (open_device returned None) the call fails and returns  *)
(* nothing; a call that returns after a switch returns a live handle.      *)
(***************************************************************************)
C19_NoRollback ==
    /\ (ret.op = "use_transport" /\ io # <<>> /\ io[1].call = "release") =>
          /\ dev.driver = NULL_DRIVER
          /\ (pc = "idle" /\ ret.outcome # "returned") => newdev = NoHandle
          /\ (pc = "idle" /\ ret.outcome = "returned") => IsLive(newdev)
    /\ (ret.op = "use_transport" /\ pc = "idle" /\ Len(io) > 1
        /\ \A i \in 2..Len(io) : io[i].args = <<"none">>) =>
          /\ ret.outcome \notin {"returned", "None"}
          /\ newdev = NoHandle

\* Discovery found no device on the requested transport: the call failed
\* and the handle holds the null driver.
C19_Witness ==
    /\ ret.op = "use_transport"
    /\ pc = "idle"
    /\ Len(io) = 2
    /\ io[1].call = "release"
    /\ io[2].args = <<"none">>
    /\ ret.outcome = "AttributeError"
    /\ dev.driver = NULL_DRIVER
    /\ newdev = NoHandle

(***************************************************************************)
(* Helpers of the properties on the timers: the guarded block of timer i   *)
(* has been left and its finally clause has run.                           *)
(***************************************************************************)
BlockDone(i) == i < Len(timers) \/ mainpc = "idle"

(***************************************************************************)
(* C18 as claimed: a timer fires at most once per guarded block, it is     *)
(* cancelled when the block has been left, and if the block is left before *)
(* the delay has elapsed (counted from timer.start()) the prompt is never  *)
(* printed.                                                                *)
(***************************************************************************)
C18_Original ==
    \A i \in DOMAIN timers :
        /\ timers[i].fired <= 1
        /\ timers[i].printed <= 1
        /\ BlockDone(i) => timers[i].finished
        /\ (timers[i].startedAt # -1 /\ timers[i].exitedAt # -1
            /\ timers[i].exitedAt < timers[i].startedAt + timers[i].interval)
              => timers[i].printed = 0

(***************************************************************************)
(* C18 as amended: a timer fires at most once per guarded block and prints *)
(* at most one prompt; when the with statement has been left, normally or  *)
(* by an exception, cancel() has been called and the timer's flag is set;  *)
(* and if cancel() was called before the delay had elapsed the timer never *)
(* fires and the prompt is never printed.  (Between the end of the block   *)
(* and the call of cancel() the delay can still elapse and the prompt be   *)
(* printed.)                                                               *)
(***************************************************************************)
C18_CancelledTimerNeverFires ==
    \A i \in DOMAIN timers :
        /\ timers[i].fired <= 1
        /\ timers[i].printed <= timers[i].fired
        /\ BlockDone(i) =>
              /\ timers[i].finished
              /\ timers[i].cancelledAt # -1
              /\ timers[i].exitHow \in {"normal", "exception", "start_error"}
        /\ (timers[i].startedAt # -1 /\ timers[i].cancelledAt # -1
            /\ timers[i].cancelledAt
                  < timers[i].startedAt + timers[i].interval)
              => timers[i].fired = 0 /\ timers[i].printed = 0

\* A block left by an exception and cancelled before the delay of 2 had
\* elapsed: the thread has run to its end and printed nothing.
C18_Witness ==
    /\ Len(timers) >= 1
    /\ timers[1].interval = 2
    /\ timers[1].exitHow = "exception"
    /\ timers[1].startedAt # -1
    /\ timers[1].cancelledAt # -1
    /\ timers[1].cancelledAt < timers[1].startedAt + 2
    /\ timers[1].tpc = "done"
    /\ timers[1].printed = 0
    /\ now = 2

(***************************************************************************)
(* C20: over any sequence of add_resolver, resolve and __getitem__ calls   *)
(* each registered resolver is called at most once, and every value a      *)
(* __getitem__ returns, to the caller or to a running resolver, is the     *)
(* result of a resolver, never a resolver not yet called.  The second     *)
(* part is stated of the sequences the claim is about, in which no         *)
(* __setitem__ or __delitem__ has changed _objects (__setitem__ stores     *)
(* what it is given, a function included, and a lookup then returns it).   *)
(* The code breaks the second part: a lookup made by a resolver while      *)
(* resolve() runs, or made after a resolver raised during resolve(),       *)
(* returns the resolver.                                                   *)
(***************************************************************************)
C20_ResolvedOnce ==
    /\ \A id \in DOMAIN invoked : invoked[id] <= 1
    /\ (~wrote /\ got # NoGot) => got.val.kind = "result"

====
